---- MODULE Spec2Model ----
(***************************************************************************)
(* A model of the sitemap parser (package sitemap): the S structure, its   *)
(* configuration setters, Parse, and the recursive fetch/parse traversal   *)
(* in its concurrent (goroutines + WaitGroup) and sequential variants.     *)
(*                                                                         *)
(* Strings are sequences of tokens, so that prefix, suffix and substring   *)
(* tests are computed rather than looked up.  A document is a record that  *)
(* says what the bytes are (gzip framing, XML root element, entries).      *)
(* A Go slice append `s.f = append(s.f, x)` is a load of the slice header  *)
(* followed by a store of the extended slice; goroutines interleave        *)
(* between the two.                                                        *)
(***************************************************************************)
EXTENDS Integers, Sequences, FiniteSets, Bags, TLC

VARIABLES
    site,                  \* the web: locator -> HTTP response (environment)
    cfg,                   \* S.cfg
    mainURL,               \* S.mainURL
    mainURLContent,        \* S.mainURLContent
    robotsTxtSitemapURLs,  \* S.robotsTxtSitemapURLs
    sitemapLocations,      \* S.sitemapLocations
    urls,                  \* S.urls
    errs,                  \* S.errs
    status,                \* the caller: "idle", "running" (inside Parse),
                           \* "returned" (Parse was the last call and is back)
    retObj,                \* the *S of the last Parse return: Nil or "s"
    retErr,                \* the error of the last Parse return: Nil or a message
    call,                  \* the arguments of the last Parse call
    units,                 \* the units of work of the last Parse, by path
    mu,                    \* the sync.Mutex of Parse: <<>> or <<holder path>>
    fetches,               \* bag of the locators fetched by the current Parse
    runs,                  \* number of Parse calls made on the instance
    setCalls,              \* number of SetFollow/SetRules calls made
    getCalls,              \* number of GetRandomURLs calls made
    sample                 \* the last GetRandomURLs call: its n and its result

vars == <<site, cfg, mainURL, mainURLContent, robotsTxtSitemapURLs,
          sitemapLocations, urls, errs, status, retObj, retErr, call, units,
          mu, fetches, runs, setCalls, getCalls, sample>>

aggregate == <<sitemapLocations, urls, errs>>

----------------------------------------------------------------------------
(* Bounds *)

\* The number of calls of SetFollow, SetRules, Parse and GetRandomURLs made on
\* the instance.
MaxCalls == 3

\* The largest n passed to GetRandomURLs.
MaxSample == 3

----------------------------------------------------------------------------
(* Values *)

Nil == "<nil>"

SitemapPrefix == "Sitemap: "
RobotsSuffix == "/robots.txt"

ErrGuard == "errors occurred before parsing, see GetErrors() for details"
ErrStatus == "received HTTP status 404"
ErrTransport == "unsupported protocol scheme"
ErrIndexEmpty == "sitemapindex is empty"
ErrURLSetEmpty == "sitemap is empty"
ErrEOF == "EOF"
ErrSyntax == "XML syntax error: unexpected EOF"
ErrNotIndex == "expected element type <sitemapindex> but have <urlset>"
ErrNotURLSet == "expected element type <urlset> but have <sitemapindex>"
ErrGzip == "gzip: invalid header"
ErrRegexp == "error parsing regexp"

\* A document body.  gz: "none" (no gzip marker), "ok" (a gzip stream of the
\* document), "corrupt" (the 3-byte marker followed by a broken stream).
\* root: "sitemapindex", "urlset", "text" (no XML element), "empty" (no bytes).
\* items: the <loc> of the entries, or the lines of a text.
\* complete: FALSE when the markup is cut off after the listed entries.
Doc(gz, root, items, complete) ==
    [gz |-> gz, root |-> root, items |-> items, complete |-> complete]

EmptyDoc == Doc("none", "empty", <<>>, TRUE)
IndexDoc(children) == Doc("none", "sitemapindex", children, TRUE)
URLSetDoc(entries) == Doc("none", "urlset", entries, TRUE)
TextDoc(lines) == Doc("none", "text", lines, TRUE)
Gzipped(doc) == [doc EXCEPT !.gz = "ok"]
CorruptGzip(doc) == [doc EXCEPT !.gz = "corrupt"]

\* A URL of a <urlset>; lastmod, changefreq and priority are carried along
\* unread by the traversal and are left out.
URL(loc) == [Loc |-> loc]

RECURSIVE MapURL(_)
MapURL(locs) ==
    IF locs = <<>> THEN <<>> ELSE <<URL(Head(locs))>> \o MapURL(Tail(locs))

----------------------------------------------------------------------------
(* Pure functions of the package *)

\* strings.HasSuffix finding no suffix.
NoSuffix(s, token) == FALSE

HasSuffix(s, token) == Len(s) > 0 /\ s[Len(s)] = token
HasPrefix(s, token) == Len(s) > 0 /\ s[1] = token

\* regexp.Compile: the patterns used are plain words, "(" and "*a".
CompileFails(pattern) == pattern \in {"(", "*a"}

\* (*Regexp).MatchString for a plain word: the word occurs in the string.
MatchString(re, s) == \E i \in 1..Len(s) : s[i] = re

\* The filter test admitting only what every pattern matches.
matchesEvery(regexes, loc) ==
    \A k \in 1..Len(regexes) : MatchString(regexes[k], loc)

\* The filter test of parse: lines 488-498 and 509-519.
matches(regexes, loc) ==
    IF Len(regexes) > 0
    THEN \E k \in 1..Len(regexes) : MatchString(regexes[k], loc)
    ELSE TRUE

\* The children of an index the follow filter lets through, in document order.
RECURSIVE Filter(_, _)
Filter(regexes, locs) ==
    IF locs = <<>> THEN <<>>
    ELSE (IF matches(regexes, Head(locs)) THEN <<Head(locs)>> ELSE <<>>)
         \o Filter(regexes, Tail(locs))

\* The URLs of a url set the rules filter lets through, in document order.
RECURSIVE FilterURLs(_, _)
FilterURLs(regexes, us) ==
    IF us = <<>> THEN <<>>
    ELSE (IF matches(regexes, Head(us).Loc) THEN <<Head(us)>> ELSE <<>>)
         \o FilterURLs(regexes, Tail(us))

\* xml.Decoder.Decode into a struct whose XMLName is `want`.
Decode(data, want, mismatch) ==
    IF data.gz # "none" \/ data.root = "text"
    THEN [items |-> <<>>, err |-> ErrEOF]
    ELSE IF data.root # want
    THEN [items |-> <<>>, err |-> mismatch]
    ELSE [items |-> data.items,
          err |-> IF data.complete THEN Nil ELSE ErrSyntax]

parseSitemapIndex(data) ==
    IF data.root = "empty" /\ data.gz = "none"
    THEN [Sitemap |-> <<>>, err |-> ErrIndexEmpty]
    ELSE LET d == Decode(data, "sitemapindex", ErrNotIndex)
         IN [Sitemap |-> d.items, err |-> d.err]

parseURLSet(data) ==
    IF data.root = "empty" /\ data.gz = "none"
    THEN [URL |-> <<>>, err |-> ErrURLSetEmpty]
    ELSE LET d == Decode(data, "urlset", ErrNotURLSet)
         IN [URL |-> MapURL(d.items), err |-> d.err]

\* An append the code is about to make: the field and the element.
Op(f, v) == [f |-> f, v |-> v]

RECURSIVE Ops(_, _)
Ops(f, vs) ==
    IF vs = <<>> THEN <<>> ELSE <<Op(f, Head(vs))>> \o Ops(f, Tail(vs))

\* unzip: the uncompressed document, or the content and an error.
unzip(content) ==
    IF content.gz = "ok"
    THEN [content |-> [content EXCEPT !.gz = "none"], err |-> Nil]
    ELSE [content |-> content, err |-> ErrGzip]

\* checkAndUnzipContent handing on no bytes when decompression fails.
checkAndUnzipContentDropping(content) ==
    IF content.gz # "none"
    THEN LET u == unzip(content)
         IN IF u.err # Nil
            THEN [content |-> EmptyDoc, ops |-> <<Op("errs", u.err)>>]
            ELSE [content |-> u.content, ops |-> <<>>]
    ELSE [content |-> content, ops |-> <<>>]

\* checkAndUnzipContent: the content to parse and the appends to errs.
checkAndUnzipContent(content) ==
    IF content.gz # "none"
    THEN LET u == unzip(content)
         IN IF u.err # Nil
            THEN [content |-> content, ops |-> <<Op("errs", u.err)>>]
            ELSE [content |-> u.content, ops |-> <<>>]
    ELSE [content |-> content, ops |-> <<>>]

\* parse classifying by the absence of a decoding error.
parseByError(c, url, content) ==
    LET smIndex == parseSitemapIndex(content)
        urlSet == parseURLSet(content)
        added == Filter(c.followRegexes, smIndex.Sitemap)
        admitted == FilterURLs(c.rulesRegexes, urlSet.URL)
        body ==
            IF smIndex.err = Nil
            THEN <<Op("locs", url)>> \o Ops("locs", added)
            ELSE IF urlSet.err = Nil
            THEN Ops("urls", admitted)
            ELSE <<>>
        e1 == IF smIndex.err # Nil /\ urlSet.err # Nil
              THEN <<Op("errs", smIndex.err)>> ELSE <<>>
        e2 == IF urlSet.err # Nil /\ smIndex.err # Nil
              THEN <<Op("errs", urlSet.err)>> ELSE <<>>
    IN [ops |-> body \o e1 \o e2,
        ret |-> IF smIndex.err = Nil THEN added ELSE <<>>]

\* parse recording every decoding error, suppressing none.
parseAllErrors(c, url, content) ==
    LET smIndex == parseSitemapIndex(content)
        urlSet == parseURLSet(content)
        added == Filter(c.followRegexes, smIndex.Sitemap)
        admitted == FilterURLs(c.rulesRegexes, urlSet.URL)
        body ==
            IF smIndex.Sitemap # <<>>
            THEN <<Op("locs", url)>> \o Ops("locs", added)
            ELSE IF Len(urlSet.URL) > 0
            THEN Ops("urls", admitted)
            ELSE <<>>
        e1 == IF smIndex.err # Nil THEN <<Op("errs", smIndex.err)>> ELSE <<>>
        e2 == IF urlSet.err # Nil THEN <<Op("errs", urlSet.err)>> ELSE <<>>
    IN [ops |-> body \o e1 \o e2,
        ret |-> IF smIndex.Sitemap # <<>> THEN added ELSE <<>>]

\* parse returning every child of the index, admitted or not.
parseReturningAll(c, url, content) ==
    LET smIndex == parseSitemapIndex(content)
        urlSet == parseURLSet(content)
        added == Filter(c.followRegexes, smIndex.Sitemap)
        admitted == FilterURLs(c.rulesRegexes, urlSet.URL)
        body ==
            IF smIndex.Sitemap # <<>>
            THEN <<Op("locs", url)>> \o Ops("locs", added)
            ELSE IF Len(urlSet.URL) > 0
            THEN Ops("urls", admitted)
            ELSE <<>>
        e1 == IF smIndex.err # Nil /\ Len(urlSet.URL) = 0
              THEN <<Op("errs", smIndex.err)>> ELSE <<>>
        e2 == IF urlSet.err # Nil /\ smIndex.Sitemap = <<>>
              THEN <<Op("errs", urlSet.err)>> ELSE <<>>
    IN [ops |-> body \o e1 \o e2, ret |-> smIndex.Sitemap]

\* parse recording the locator of every document it is given, url sets too.
parseRecordingLeaf(c, url, content) ==
    LET smIndex == parseSitemapIndex(content)
        urlSet == parseURLSet(content)
        added == Filter(c.followRegexes, smIndex.Sitemap)
        admitted == FilterURLs(c.rulesRegexes, urlSet.URL)
    IN [ops |-> <<Op("locs", url)>> \o Ops("locs", added) \o Ops("urls", admitted),
        ret |-> added]

\* parse: the appends it makes, in program order, and the value it returns.
parse(c, url, content) ==
    LET smIndex == parseSitemapIndex(content)
        urlSet == parseURLSet(content)
        added == Filter(c.followRegexes, smIndex.Sitemap)
        admitted == FilterURLs(c.rulesRegexes, urlSet.URL)
        body ==
            IF smIndex.Sitemap # <<>>
            THEN <<Op("locs", url)>> \o Ops("locs", added)
            ELSE IF Len(urlSet.URL) > 0
            THEN Ops("urls", admitted)
            ELSE <<>>
        e1 == IF smIndex.err # Nil /\ Len(urlSet.URL) = 0
              THEN <<Op("errs", smIndex.err)>> ELSE <<>>
        e2 == IF urlSet.err # Nil /\ smIndex.Sitemap = <<>>
              THEN <<Op("errs", urlSet.err)>> ELSE <<>>
    IN [ops |-> body \o e1 \o e2,
        ret |-> IF smIndex.Sitemap # <<>> THEN added ELSE <<>>]

\* strings.Split(line, "Sitemap: ")[1]: what follows the first separator, up to
\* the next one.
RECURSIVE UpToSeparator(_)
UpToSeparator(s) ==
    IF s = <<>> \/ Head(s) = SitemapPrefix THEN <<>>
    ELSE <<Head(s)>> \o UpToSeparator(Tail(s))

\* strings.Split(content, "\n")
Lines(content) == IF content.root = "text" THEN content.items ELSE <<>>

RECURSIVE RobotsURLs(_)
RobotsURLs(lines) ==
    IF lines = <<>> THEN <<>>
    ELSE (IF HasPrefix(Head(lines), SitemapPrefix)
          THEN <<UpToSeparator(Tail(Head(lines)))>> ELSE <<>>)
         \o RobotsURLs(Tail(lines))

\* parseRobotsTXT: the locators it appends to robotsTxtSitemapURLs.
parseRobotsTXT(content) == RobotsURLs(Lines(content))

\* fetch: the body, or an error for a failed request or a status other than 200.
fetch(url) ==
    IF url \notin DOMAIN site THEN [body |-> EmptyDoc, err |-> ErrTransport]
    ELSE IF site[url].status # 200 THEN [body |-> EmptyDoc, err |-> ErrStatus]
    ELSE [body |-> site[url].body, err |-> Nil]

\* setContent fetching the entry whether or not content is supplied.
setContentFetching(url, urlContent) ==
    LET r == fetch(url)
    IN [content |-> r.body, err |-> r.err, fetched |-> TRUE]

\* setContent: urlContent is <<>> (nil) or <<content>>.
setContent(url, urlContent) ==
    IF urlContent # <<>>
    THEN [content |-> urlContent[1], err |-> Nil, fetched |-> FALSE]
    ELSE LET r == fetch(url)
         IN [content |-> r.body, err |-> r.err, fetched |-> TRUE]

----------------------------------------------------------------------------
(* The environment: locators, documents and sites *)

LRobots == <<"h", RobotsSuffix>>
LIndex == <<"h", "index">>
LNested == <<"h", "nested">>
LA1 == <<"alpha", "1">>
LA2 == <<"alpha", "2">>
LB1 == <<"beta", "1">>
LGone == <<"gone">>
P1 == <<"page", "1">>
P2 == <<"page", "2">>
P3 == <<"page", "3">>
P4 == <<"post", "4">>
P5 == <<"page", "5">>
P6 == <<"page", "6">>

OK(body) == [status |-> 200, body |-> body]
NotFound == [status |-> 404, body |-> EmptyDoc]

Line(loc) == <<SitemapPrefix>> \o loc
RobotsDoc(locs) ==
    TextDoc(<<<<"User-agent: *">>>> \o [i \in 1..Len(locs) |-> Line(locs[i])])

\* robots.txt -> one index -> three url sets of two URLs each.
SiteA ==
    (LRobots :> OK(RobotsDoc(<<LIndex>>))) @@
    (LIndex :> OK(IndexDoc(<<LA1, LA2, LB1>>))) @@
    (LA1 :> OK(URLSetDoc(<<P1, P2>>))) @@
    (LA2 :> OK(URLSetDoc(<<P3, P4>>))) @@
    (LB1 :> OK(URLSetDoc(<<P5, P6>>)))

\* An index of two url sets, the second gzipped and cut off after its first
\* URL; the filters "alpha" and "page" each reject something.
SiteFiltered ==
    (LRobots :> OK(RobotsDoc(<<LIndex>>))) @@
    (LIndex :> OK(IndexDoc(<<LA1, LB1>>))) @@
    (LA1 :> OK(URLSetDoc(<<P1, P4>>))) @@
    (LB1 :> OK(Doc("ok", "urlset", <<P2>>, FALSE)))

\* An index whose children are a missing document, an empty document and a
\* url set; a second robots.txt root that is a broken gzip stream.
SiteBroken ==
    (LRobots :> OK(RobotsDoc(<<LIndex, LA2>>))) @@
    (LIndex :> OK(IndexDoc(<<LGone, LB1, LA1>>))) @@
    (LA1 :> OK(URLSetDoc(<<P1>>))) @@
    (LA2 :> OK(CorruptGzip(URLSetDoc(<<P2>>)))) @@
    (LB1 :> OK(EmptyDoc)) @@
    (LGone :> NotFound)

\* An index of two indexes (the same child listed twice), each listing a
\* document that is missing; a robots.txt without directives.
SiteNested ==
    (LRobots :> OK(TextDoc(<<<<"User-agent: *">>>>))) @@
    (LIndex :> OK(IndexDoc(<<LNested, LNested>>))) @@
    (LNested :> OK(IndexDoc(<<LGone>>))) @@
    (LGone :> NotFound)

Sites == {SiteFiltered, SiteBroken, SiteNested}

\* A robots.txt with a directive in lower case and a line that holds the
\* directive twice.
RobotsTwice ==
    TextDoc(<<<<"sitemap: ">> \o LIndex,
              Line(LGone) \o Line(LIndex)>>)

\* The arguments of Parse: the entry and nil (<<>>) or the content supplied.
ParseInputs ==
    {<<LRobots, <<>>>>, <<LIndex, <<>>>>, <<LGone, <<>>>>,
     <<LIndex, <<URLSetDoc(<<P3, P4>>)>>>>, <<LRobots, <<RobotsTwice>>>>}
PatternLists == {<<"alpha">>, <<"page">>, <<"(", "alpha">>}

----------------------------------------------------------------------------
(* State *)

\* A unit of work: one iteration of the loop of parseAndFetchUrls* (a goroutine
\* in the concurrent variant), one goroutine of Parse for a robots.txt root, or
\* (path <<>>) the body of Parse itself.
\*   pc: "lock"   waiting for mu (robots.txt roots only)
\*       "fetch"  about to fetch loc
\*       "load"   about to read the slice Head(todo) appends to
\*       "store"  holds the slice read in tmp, about to write the appended slice
\*       "expand" appends made, about to hand ret to parseAndFetchUrls*
\*       "wait"   blocked in wg.Wait (or in the recursive call, sequentially)
\*       "done"
Unit(loc, pc, todo, ret, locked) ==
    [loc |-> loc, pc |-> pc, todo |-> todo, tmp |-> <<>>, ret |-> ret,
     locked |-> locked]

NoUnits == <<>> :> Unit(<<>>, "done", <<>>, <<>>, FALSE)
NoCall == [url |-> <<>>, content |-> <<>>]
NoSample == [s |-> Nil, n |-> 0, randURLs |-> <<>>]

Children(p) == {q \in DOMAIN units : Len(q) = Len(p) + 1 /\ SubSeq(q, 1, Len(p)) = p}
Parent(p) == SubSeq(p, 1, Len(p) - 1)

isRobots == HasSuffix(mainURL, RobotsSuffix)

AfterOps(todo) == IF todo = <<>> THEN "expand" ELSE "load"

InitOn(sites) ==
    /\ site \in sites
    /\ cfg = [multiThread |-> TRUE, follow |-> <<>>, followRegexes |-> <<>>,
              rules |-> <<>>, rulesRegexes |-> <<>>]
    /\ mainURL = <<>>
    /\ mainURLContent = EmptyDoc
    /\ robotsTxtSitemapURLs = <<>>
    /\ sitemapLocations = <<>>
    /\ urls = <<>>
    /\ errs = <<>>
    /\ status = "idle"
    /\ retObj = Nil
    /\ retErr = Nil
    /\ call = NoCall
    /\ units = NoUnits
    /\ mu = <<>>
    /\ fetches = EmptyBag
    /\ runs = 0
    /\ setCalls = 0
    /\ getCalls = 0
    /\ sample = NoSample

Init == InitOn(Sites)

----------------------------------------------------------------------------
(* Configuration *)

RECURSIVE Compiled(_)
Compiled(regexes) ==
    IF regexes = <<>> THEN <<>>
    ELSE (IF CompileFails(Head(regexes)) THEN <<>> ELSE <<Head(regexes)>>)
         \o Compiled(Tail(regexes))

\* A pattern that fails to compile skipped without an error.
NoCompileErrors(regexes) == <<>>

RECURSIVE CompileErrors(_)
CompileErrors(regexes) ==
    IF regexes = <<>> THEN <<>>
    ELSE (IF CompileFails(Head(regexes)) THEN <<ErrRegexp>> ELSE <<>>)
         \o CompileErrors(Tail(regexes))

SetMultiThread(multiThread) ==
    /\ status # "running"
    /\ status' = "idle"
    /\ cfg' = [cfg EXCEPT !.multiThread = multiThread]
    /\ UNCHANGED <<site, mainURL, mainURLContent, robotsTxtSitemapURLs,
                   sitemapLocations, urls, errs, retObj, retErr, call, units,
                   mu, fetches, runs, setCalls, getCalls, sample>>

SetFollow(regexes) ==
    /\ status # "running"
    /\ runs + setCalls + getCalls < MaxCalls
    /\ setCalls' = setCalls + 1
    /\ status' = "idle"
    /\ cfg' = [cfg EXCEPT !.follow = regexes,
                          !.followRegexes = @ \o Compiled(regexes)]
    /\ errs' = errs \o CompileErrors(regexes)
    /\ UNCHANGED <<site, mainURL, mainURLContent, robotsTxtSitemapURLs,
                   sitemapLocations, urls, retObj, retErr, call, units, mu,
                   fetches, runs, getCalls, sample>>

SetRules(regexes) ==
    /\ status # "running"
    /\ runs + setCalls + getCalls < MaxCalls
    /\ setCalls' = setCalls + 1
    /\ status' = "idle"
    /\ cfg' = [cfg EXCEPT !.rules = regexes,
                          !.rulesRegexes = @ \o Compiled(regexes)]
    /\ errs' = errs \o CompileErrors(regexes)
    /\ UNCHANGED <<site, mainURL, mainURLContent, robotsTxtSitemapURLs,
                   sitemapLocations, urls, retObj, retErr, call, units, mu,
                   fetches, runs, getCalls, sample>>

----------------------------------------------------------------------------
(* Parse *)

\* The guard of Parse left out.
hasErrorsIgnored == FALSE

\* Parse, line 219: the guard.
hasErrors == Len(errs) > 0

\* Parse, lines 219-221: the instance already holds errors.
ParseRefused ==
    /\ status' = "returned"
    /\ retObj' = "s"
    /\ retErr' = ErrGuard
    /\ UNCHANGED <<cfg, mainURL, mainURLContent, robotsTxtSitemapURLs,
                   sitemapLocations, urls, errs, units, mu, fetches>>

\* Parse, lines 223-228: the content of the entry cannot be obtained.
ParseNoContent(url, r) ==
    /\ mainURL' = url
    /\ mainURLContent' = EmptyDoc
    /\ errs' = Append(errs, r.err)
    /\ fetches' = SetToBag({url})
    /\ status' = "returned"
    /\ retObj' = "s"
    /\ retErr' = r.err
    /\ units' = NoUnits
    /\ UNCHANGED <<cfg, robotsTxtSitemapURLs, sitemapLocations, urls, mu>>

\* Parse, lines 230-255: a robots.txt entry.  One goroutine per locator of
\* robotsTxtSitemapURLs is started; each takes mu before it fetches.
ParseRobots(url, r) ==
    LET found == robotsTxtSitemapURLs \o parseRobotsTXT(r.content)
    IN /\ mainURL' = url
       /\ mainURLContent' = r.content
       /\ robotsTxtSitemapURLs' = found
       /\ fetches' = IF r.fetched THEN SetToBag({url}) ELSE EmptyBag
       /\ units' = <<>> :> Unit(url, "expand", <<>>, found, FALSE)
       /\ status' = "running"
       /\ UNCHANGED <<cfg, sitemapLocations, urls, errs, retObj, retErr, mu>>

\* Parse, lines 256-264: any other entry is unzipped and parsed by the caller,
\* and what parse returns is handed to parseAndFetchUrls*.
ParseSitemap(url, r) ==
    LET z == checkAndUnzipContent(r.content)
        p == parse(cfg, url, z.content)
    IN /\ mainURL' = url
       /\ mainURLContent' = z.content
       /\ fetches' = IF r.fetched THEN SetToBag({url}) ELSE EmptyBag
       /\ units' = <<>> :> Unit(url, AfterOps(z.ops \o p.ops), z.ops \o p.ops,
                                p.ret, FALSE)
       /\ status' = "running"
       /\ UNCHANGED <<cfg, robotsTxtSitemapURLs, sitemapLocations, urls, errs,
                      retObj, retErr, mu>>

Parse(url, urlContent) ==
    /\ status # "running"
    /\ runs + setCalls + getCalls < MaxCalls
    /\ runs' = runs + 1
    /\ call' = [url |-> url, content |-> urlContent]
    /\ UNCHANGED <<site, setCalls, getCalls, sample>>
    /\ IF hasErrors THEN ParseRefused
       ELSE LET r == setContent(url, urlContent)
            IN IF r.err # Nil THEN ParseNoContent(url, r)
               ELSE IF HasSuffix(url, RobotsSuffix) THEN ParseRobots(url, r)
               ELSE ParseSitemap(url, r)

\* Parse handing back the first recorded error instead of nil.
ReturnFirstError ==
    /\ status = "running"
    /\ units[<<>>].pc = "done"
    /\ status' = "returned"
    /\ retObj' = "s"
    /\ retErr' = IF errs = <<>> THEN Nil ELSE errs[1]
    /\ UNCHANGED <<site, cfg, mainURL, mainURLContent, robotsTxtSitemapURLs,
                   sitemapLocations, urls, errs, call, units, mu, fetches,
                   runs, setCalls, getCalls, sample>>

\* Parse, lines 266-268: wg.Wait returns and Parse returns (s, nil).
Return ==
    /\ status = "running"
    /\ units[<<>>].pc = "done"
    /\ status' = "returned"
    /\ retObj' = "s"
    /\ retErr' = Nil
    /\ UNCHANGED <<site, cfg, mainURL, mainURLContent, robotsTxtSitemapURLs,
                   sitemapLocations, urls, errs, call, units, mu, fetches,
                   runs, setCalls, getCalls, sample>>

----------------------------------------------------------------------------
(* Accessors *)

\* The receiver of a method: the instance New returned, or a nil *S.
Receivers == {Nil, "s"}

\* GetErrorsCount returning the length of the field for every receiver.
lenErrs(s) == Len(errs)

\* GetErrorsCount: 0 for a nil receiver.
GetErrorsCount(s) == IF s = Nil THEN 0 ELSE Len(errs)

\* GetErrors: a nil slice for a nil receiver (a nil slice is the empty sequence).
GetErrors(s) == IF s = Nil THEN <<>> ELSE errs

\* GetURLCount: 0 for a nil receiver and for an empty collection.
GetURLCount(s) ==
    IF s = Nil THEN 0
    ELSE IF Len(urls) <= 0 THEN 0
    ELSE Len(urls)

\* What a call that panics hands back: no value.
Panic == <<"panic">>

\* GetURLs: the stored slice, or an empty one.  There is no nil check: s.urls
\* of a nil receiver is a nil pointer dereference.
GetURLs(s) ==
    IF s = Nil THEN Panic
    ELSE IF Len(urls) <= 0 THEN <<>>
    ELSE urls

\* The loop of GetRandomURLs without the removal of the selected element.
RECURSIVE DrawKeeping(_, _, _, _)
DrawKeeping(array, len, randURLs, k) ==
    IF k = 0 \/ len = 0
    THEN {[array |-> array, randURLs |-> randURLs]}
    ELSE UNION {DrawKeeping(array, len, Append(randURLs, array[index]), k - 1) :
                    index \in 1..len}

\* The loop of GetRandomURLs with k iterations left.  originalURLs shares its
\* backing array (array) with s.urls and holds its first len elements; the
\* index is any value rand.Intn(len) can return.  The result is the set of
\* possible outcomes: the array as the loop leaves it and the slice returned.
RECURSIVE Draw(_, _, _, _)
Draw(array, len, randURLs, k) ==
    IF k = 0 \/ len = 0
    THEN {[array |-> array, randURLs |-> randURLs]}
    ELSE UNION {Draw([array EXCEPT ![index] = array[len]], len - 1,
                     Append(randURLs, array[index]), k - 1) : index \in 1..len}

\* GetRandomURLs: an empty slice for a nil receiver (lines 309-311), which is
\* not a call on the instance; for a negative n make([]URL, 0, n) panics
\* (line 316) before s.urls is touched; otherwise the loop over s.urls.
GetRandomURLs(s, n) ==
    /\ status # "running"
    /\ IF s = Nil
       THEN /\ sample' = [s |-> Nil, n |-> n, randURLs |-> <<>>]
            /\ UNCHANGED <<urls, status, getCalls>>
       ELSE IF n < 0
       THEN /\ sample' = [s |-> s, n |-> n, randURLs |-> Panic]
            /\ UNCHANGED <<urls, status, getCalls>>
       ELSE /\ runs + setCalls + getCalls < MaxCalls
            /\ getCalls' = getCalls + 1
            /\ status' = "idle"
            /\ \E r \in Draw(urls, Len(urls), <<>>, n) :
                   /\ urls' = r.array
                   /\ sample' = [s |-> s, n |-> n, randURLs |-> r.randURLs]
    /\ UNCHANGED <<site, cfg, mainURL, mainURLContent, robotsTxtSitemapURLs,
                   sitemapLocations, errs, retObj, retErr, call, units, mu,
                   fetches, runs, setCalls>>

----------------------------------------------------------------------------
(* The traversal: parseAndFetchUrlsMultiThread, parseAndFetchUrlsSequential
   and the goroutines of Parse *)

\* The root goes on without waiting for mu.
LockAnyway(p) ==
    /\ units[p].pc = "lock"
    /\ mu' = <<p>>
    /\ units' = [units EXCEPT ![p].pc = "fetch"]
    /\ UNCHANGED <<site, cfg, mainURL, mainURLContent, robotsTxtSitemapURLs,
                   sitemapLocations, urls, errs, status, retObj, retErr, call,
                   fetches, runs, setCalls, getCalls, sample>>

\* mu.Lock() of a robots.txt root.
Lock(p) ==
    /\ units[p].pc = "lock"
    /\ mu = <<>>
    /\ mu' = <<p>>
    /\ units' = [units EXCEPT ![p].pc = "fetch"]
    /\ UNCHANGED <<site, cfg, mainURL, mainURLContent, robotsTxtSitemapURLs,
                   sitemapLocations, urls, errs, status, retObj, retErr, call,
                   fetches, runs, setCalls, getCalls, sample>>

\* Every iteration started at once, as the goroutines are.
AnyOrder(p) == TRUE

\* The loop of parseAndFetchUrlsSequential takes the locations in order, each
\* after the whole subtree of the one before; the goroutines of
\* parseAndFetchUrlsMultiThread and of Parse start in any order.
CanStart(p) ==
    IF units[p].locked \/ cfg.multiThread \/ p[Len(p)] = 1 THEN TRUE
    ELSE units[Parent(p) \o <<p[Len(p)] - 1>>].pc = "done"

\* The failed fetch recorded and the (empty) body decoded all the same.
FetchedGoingOn(u) ==
    LET r == fetch(u.loc)
        z == checkAndUnzipContent(r.body)
        p == parse(cfg, u.loc, z.content)
        e == IF r.err # Nil THEN <<Op("errs", r.err)>> ELSE <<>>
    IN [u EXCEPT !.todo = e \o z.ops \o p.ops, !.ret = p.ret,
                 !.pc = AfterOps(e \o z.ops \o p.ops)]

\* fetch, checkAndUnzipContent and the decoding of parse: what the unit will
\* append, and the locations parse will return.
Fetched(u) ==
    LET r == fetch(u.loc)
        z == checkAndUnzipContent(r.body)
        p == parse(cfg, u.loc, z.content)
    IN IF r.err # Nil
       THEN [u EXCEPT !.todo = <<Op("errs", r.err)>>, !.ret = <<>>, !.pc = "load"]
       ELSE [u EXCEPT !.todo = z.ops \o p.ops, !.ret = p.ret,
                      !.pc = AfterOps(z.ops \o p.ops)]

Fetch(p) ==
    /\ units[p].pc = "fetch"
    /\ CanStart(p)
    /\ units' = [units EXCEPT ![p] = Fetched(units[p])]
    /\ fetches' = fetches (+) SetToBag({units[p].loc})
    /\ UNCHANGED <<site, cfg, mainURL, mainURLContent, robotsTxtSitemapURLs,
                   sitemapLocations, urls, errs, status, retObj, retErr, call,
                   mu, runs, setCalls, getCalls, sample>>

Field(f) ==
    CASE f = "errs" -> errs
      [] f = "locs" -> sitemapLocations
      [] f = "urls" -> urls

\* append(s.f, x), first half: the slice is read.
Load(p) ==
    /\ units[p].pc = "load"
    /\ units' = [units EXCEPT ![p].tmp = Field(Head(units[p].todo).f),
                              ![p].pc = "store"]
    /\ UNCHANGED <<site, cfg, mainURL, mainURLContent, robotsTxtSitemapURLs,
                   sitemapLocations, urls, errs, status, retObj, retErr, call,
                   mu, fetches, runs, setCalls, getCalls, sample>>

\* s.f = append(...), second half: the slice read, extended, is written back.
Store(p) ==
    LET u == units[p]
        op == Head(u.todo)
        new == Append(u.tmp, op.v)
    IN /\ u.pc = "store"
       /\ errs' = IF op.f = "errs" THEN new ELSE errs
       /\ sitemapLocations' = IF op.f = "locs" THEN new ELSE sitemapLocations
       /\ urls' = IF op.f = "urls" THEN new ELSE urls
       /\ units' = [units EXCEPT ![p].todo = Tail(u.todo), ![p].tmp = <<>>,
                                 ![p].pc = AfterOps(Tail(u.todo))]
       /\ UNCHANGED <<site, cfg, mainURL, mainURLContent, robotsTxtSitemapURLs,
                      status, retObj, retErr, call, mu, fetches, runs, setCalls, getCalls, sample>>

\* The unit returns without mu.Unlock.
FinishedHolding(p) ==
    /\ units' = [units EXCEPT ![p].pc = "done"]
    /\ mu' = mu

\* The unit returns: wg.Done, after mu.Unlock for a robots.txt root.
Finished(p) ==
    /\ units' = [units EXCEPT ![p].pc = "done"]
    /\ mu' = IF units[p].locked THEN <<>> ELSE mu

\* Goroutines started only for the locations the follow filter admits.
SpawnedFollowed(p) ==
    LET u == units[p]
        first == IF p = <<>> /\ isRobots THEN "lock" ELSE "fetch"
        ret == Filter(cfg.followRegexes, u.ret)
    IN [q \in {p \o <<i>> : i \in 1..Len(ret)} |->
           Unit(ret[q[Len(q)]], first, <<>>, <<>>, first = "lock")]

\* The goroutines (or loop iterations) started for the locations in ret.
Spawned(p) ==
    LET u == units[p]
        first == IF p = <<>> /\ isRobots THEN "lock" ELSE "fetch"
    IN [q \in {p \o <<i>> : i \in 1..Len(u.ret)} |->
           Unit(u.ret[q[Len(q)]], first, <<>>, <<>>, first = "lock")]

\* The unit has made its appends: it hands the locations parse returned to
\* parseAndFetchUrls* (Parse does so even when there are none), or returns.
Expand(p) ==
    /\ units[p].pc = "expand"
    /\ IF Len(units[p].ret) > 0
       THEN /\ units' = [units EXCEPT ![p].pc = "wait"] @@ Spawned(p)
            /\ mu' = mu
       ELSE Finished(p)
    /\ UNCHANGED <<site, cfg, mainURL, mainURLContent, robotsTxtSitemapURLs,
                   sitemapLocations, urls, errs, status, retObj, retErr, call,
                   fetches, runs, setCalls, getCalls, sample>>

\* wg.Wait left out: the unit returns while the units it started still run.
NotWaited(p) == TRUE

\* wg.Wait (the return of the recursive call, sequentially): every unit
\* started by this one has returned.
Waited(p) == \A q \in Children(p) : units[q].pc = "done"

Join(p) ==
    /\ units[p].pc = "wait"
    /\ Waited(p)
    /\ Finished(p)
    /\ UNCHANGED <<site, cfg, mainURL, mainURLContent, robotsTxtSitemapURLs,
                   sitemapLocations, urls, errs, status, retObj, retErr, call,
                   fetches, runs, setCalls, getCalls, sample>>

----------------------------------------------------------------------------
(* Specification *)

Next ==
    \/ \E b \in BOOLEAN : SetMultiThread(b)
    \/ \E rs \in PatternLists : SetFollow(rs)
    \/ \E rs \in PatternLists : SetRules(rs)
    \/ \E in \in ParseInputs : Parse(in[1], in[2])
    \/ Return
    \/ \E n \in -1..MaxSample : GetRandomURLs("s", n)
    \/ \E n \in {-1, MaxSample} : GetRandomURLs(Nil, n)
    \/ \E p \in DOMAIN units : Lock(p)
    \/ \E p \in DOMAIN units : Fetch(p)
    \/ \E p \in DOMAIN units : Load(p)
    \/ \E p \in DOMAIN units : Store(p)
    \/ \E p \in DOMAIN units : Expand(p)
    \/ \E p \in DOMAIN units : Join(p)

Spec == Init /\ [][Next]_vars

\* One Parse of the robots.txt of SiteA on a new instance, in either mode.
InitA == InitOn({SiteA})

NextA ==
    \/ \E b \in BOOLEAN : runs = 0 /\ SetMultiThread(b)
    \/ runs = 0 /\ Parse(LRobots, <<>>)
    \/ Return
    \/ \E p \in DOMAIN units : Lock(p)
    \/ \E p \in DOMAIN units : Fetch(p)
    \/ \E p \in DOMAIN units : Load(p)
    \/ \E p \in DOMAIN units : Store(p)
    \/ \E p \in DOMAIN units : Expand(p)
    \/ \E p \in DOMAIN units : Join(p)

SpecA == InitA /\ [][NextA]_vars

\* An index and a robots.txt that both name the same url set twice.
SiteTwice ==
    (LRobots :> OK(RobotsDoc(<<LA1, LA1>>))) @@
    (LIndex :> OK(IndexDoc(<<LA1, LA1>>))) @@
    (LA1 :> OK(URLSetDoc(<<P1>>)))

\* One Parse on a new instance, in either mode, every goroutine scheduled
\* again and again until it has returned.
InitOnce == InitOn(Sites \cup {SiteTwice})

NextOnce ==
    \/ \E b \in BOOLEAN : runs = 0 /\ SetMultiThread(b)
    \/ \E in \in ParseInputs : runs = 0 /\ Parse(in[1], in[2])
    \/ Return
    \/ \E p \in DOMAIN units : Lock(p)
    \/ \E p \in DOMAIN units : Fetch(p)
    \/ \E p \in DOMAIN units : Load(p)
    \/ \E p \in DOMAIN units : Store(p)
    \/ \E p \in DOMAIN units : Expand(p)
    \/ \E p \in DOMAIN units : Join(p)

Traverse ==
    \E p \in DOMAIN units :
        Lock(p) \/ Fetch(p) \/ Load(p) \/ Store(p) \/ Expand(p) \/ Join(p)

FairSpec ==
    InitOnce /\ [][NextOnce]_vars /\ WF_vars(Traverse) /\ WF_vars(Return)

----------------------------------------------------------------------------
(* The sequential traversal as a function of the site *)

\* parseAndFetchUrlsSequential(locations): the appends it makes, in order.
RECURSIVE Walk(_, _)
Walk(c, locations) ==
    IF locations = <<>> THEN <<>>
    ELSE LET loc == Head(locations)
             r == fetch(loc)
             z == checkAndUnzipContent(r.body)
             p == parse(c, loc, z.content)
             here == IF r.err # Nil THEN <<Op("errs", r.err)>>
                     ELSE z.ops \o p.ops \o Walk(c, p.ret)
         IN here \o Walk(c, Tail(locations))

\* The appends of a sequential Parse(url, urlContent) on a new instance whose
\* entry content is obtained.
WalkEntry(c, url, urlContent) ==
    LET r == setContent(url, urlContent)
        z == checkAndUnzipContent(r.content)
        p == parse(c, url, z.content)
    IN IF HasSuffix(url, RobotsSuffix)
       THEN Walk(c, parseRobotsTXT(r.content))
       ELSE z.ops \o p.ops \o Walk(c, p.ret)

RECURSIVE Project(_, _)
Project(ops, f) ==
    IF ops = <<>> THEN <<>>
    ELSE (IF Head(ops).f = f THEN <<Head(ops).v>> ELSE <<>>)
         \o Project(Tail(ops), f)

SeqToBag(s) ==
    [x \in {s[i] : i \in 1..Len(s)} |-> Cardinality({i \in 1..Len(s) : s[i] = x})]

Fields == {"errs", "locs", "urls"}

\* The document unit p classifies, and the appends its processing makes.
DocOf(p) ==
    IF p = <<>> THEN mainURLContent
    ELSE checkAndUnzipContent(fetch(units[p].loc).body).content

UnitOps(p) == Fetched(units[p]).todo

RECURSIVE OpsOf(_)
OpsOf(ps) ==
    IF ps = {} THEN <<>>
    ELSE LET p == CHOOSE q \in ps : TRUE
         IN UnitOps(p) \o OpsOf(ps \ {p})

\* In this step unit p obtains its document and parse classifies it: the
\* appends it will make are laid down in todo.
Classifies(p) ==
    /\ status' = "running"
    /\ units'[p].pc \notin {"lock", "fetch"}
    /\ \/ runs' = runs + 1
       \/ p \in DOMAIN units /\ status = "running" /\ units[p].pc = "fetch"

\* In this step unit p writes back the slice of field f it has extended.
Stores(p, f) ==
    /\ p \in DOMAIN units
    /\ status = "running"
    /\ units[p].pc = "store"
    /\ units'[p].pc # "store"
    /\ Head(units[p].todo).f = f

\* What parse takes a document for: lines 483 and 505.
Classified(content) ==
    IF parseSitemapIndex(content).Sitemap # <<>> THEN "sitemapindex"
    ELSE IF Len(parseURLSet(content).URL) > 0 THEN "urlset"
    ELSE "none"

\* The document a fetch of locator l hands to parse.
DocAt(l) == checkAndUnzipContent(fetch(l).body).content

Elements(s) == {s[i] : i \in 1..Len(s)}

\* The locators the site serves an index under, and those its indexes list.
IndexLocators == {l \in DOMAIN site : Classified(DocAt(l)) = "sitemapindex"}
ListedChildren ==
    UNION {Elements(parseSitemapIndex(DocAt(l)).Sitemap) : l \in DOMAIN site}

Min(a, b) == IF a < b THEN a ELSE b

\* A candidate is admitted by a set of compiled patterns.
Admits(regexes, candidate) ==
    regexes = <<>> \/ \E k \in 1..Len(regexes) : MatchString(regexes[k], candidate)

\* The appends to errs in ops that report empty content.
EmptyContentErrors(ops) ==
    {i \in 1..Len(ops) :
        ops[i].f = "errs" /\ ops[i].v \in {ErrIndexEmpty, ErrURLSetEmpty}}

\* In this step Parse is called and gets past its guard.
Admitted == runs' = runs + 1 /\ ~hasErrors

\* In this step the document of unit p is handed to parse: the unit obtained
\* a document, and it is not the body of a Parse of a robots.txt.
Parses(p) ==
    /\ Classifies(p)
    /\ IF p = <<>> THEN ~HasSuffix(mainURL', RobotsSuffix)
       ELSE fetch(units'[p].loc).err = Nil

\* The errors of the two decodings that failed, the index's first.
FailedDecodings(content) ==
    LET smIndex == parseSitemapIndex(content)
        urlSet == parseURLSet(content)
    IN (IF smIndex.err # Nil THEN <<smIndex.err>> ELSE <<>>)
       \o (IF urlSet.err # Nil THEN <<urlSet.err>> ELSE <<>>)

\* For each line that starts with the prefix, all that follows the prefix.
RECURSIVE AfterPrefix(_)
AfterPrefix(lines) ==
    IF lines = <<>> THEN <<>>
    ELSE (IF HasPrefix(Head(lines), SitemapPrefix)
          THEN <<Tail(Head(lines))>> ELSE <<>>)
         \o AfterPrefix(Tail(lines))

\* The units that hold a document and have not yet handed on what parse
\* returned: those whose location is being classified.
Busy == {p \in DOMAIN units : units[p].pc \in {"load", "store", "expand"}}

\* Unit p has begun: a robots.txt root holds mu, a loop iteration (or goroutine
\* of the traversal) has fetched.
Begun(p) ==
    IF units[p].locked THEN units[p].pc # "lock" ELSE units[p].pc # "fetch"

\* Unit p and every unit started below it.
Subtree(p) ==
    {q \in DOMAIN units : Len(q) >= Len(p) /\ SubSeq(q, 1, Len(p)) = p}

Finishes(p) == \A q \in Subtree(p) : units[q].pc = "done"

\* The appends the caller's own parse of the entry makes (none for a
\* robots.txt), and every append issued in the run.
EntryOps == IF isRobots THEN <<>> ELSE parse(cfg, mainURL, mainURLContent).ops

Issued(f) == Project(EntryOps \o OpsOf(DOMAIN units \ {<<>>}), f)

\* The units whose document parse takes for an index.
IndexUnits ==
    {p \in DOMAIN units :
        /\ IF p = <<>> THEN ~isRobots ELSE fetch(units[p].loc).err = Nil
        /\ Classified(DocOf(p)) = "sitemapindex"}

\* One for each index plus the number of children the follow filter admits.
RECURSIVE OwnAndAdmitted(_)
OwnAndAdmitted(ps) ==
    IF ps = {} THEN 0
    ELSE LET p == CHOOSE q \in ps : TRUE
         IN 1 + Len(units[p].ret) + OwnAndAdmitted(ps \ {p})

----------------------------------------------------------------------------
(* Claims *)

\* C1: in concurrent mode no two units are inside an append to the same
\* collection of the aggregate at the same time.
C1_AppendsExclusive ==
    cfg.multiThread =>
        \A p, q \in DOMAIN units :
            (p # q /\ units[p].pc = "store" /\ units[q].pc = "store")
                => Head(units[p].todo).f # Head(units[q].todo).f

\* C2: a concurrent run ends with the same admitted URLs, discovered locations
\* and errors, as multisets, as the sequential run of the same entry on the
\* same site with the same filters.
C2_SameAsSequential ==
    (status = "returned" /\ runs = 1 /\ retErr = Nil) =>
        \A f \in Fields :
            SeqToBag(Field(f)) =
                SeqToBag(Project(WalkEntry(cfg, call.url, call.content), f))

\* C3: when Parse has returned, every unit of work started during the run, at
\* any depth, has completed, and nothing writes to the aggregate while the
\* caller holds the result.
C3_AllDoneAtReturn ==
    /\ [](status = "returned" => \A p \in DOMAIN units : units[p].pc = "done")
    /\ [][(status = "returned" /\ status' = "returned" /\ runs' = runs)
             => UNCHANGED aggregate]_vars

C3_Witness ==
    /\ status = "returned"
    /\ retErr = Nil
    /\ cfg.multiThread
    /\ \E p \in DOMAIN units : Len(p) = 2 /\ units[p].pc = "done"

\* C4: when the run has returned, every failure of a fetch or a classification
\* is in the error collection, the failed unit started nothing, and every
\* URL admitted from any other location is in the admitted URLs.
C4_FailuresRecordedSiblingsKept ==
    LET ps == DOMAIN units \ {<<>>}
        failed == {p \in ps : Project(UnitOps(p), "errs") # <<>>}
    IN (status = "returned" /\ retErr = Nil /\ failed # {}) =>
           /\ \A p \in ps : units[p].pc = "done"
           /\ \A p \in failed : fetch(units[p].loc).err # Nil => Children(p) = {}
           /\ SeqToBag(Project(OpsOf(ps), "errs")) \sqsubseteq SeqToBag(errs)
           /\ SeqToBag(Project(OpsOf(ps), "urls")) \sqsubseteq SeqToBag(urls)

\* C5: a Parse call on an instance that holds errors returns the guard error,
\* fetches nothing and changes no field.
C5_RefusedParseChangesNothing ==
    [][(runs' = runs + 1 /\ Len(errs) > 0) =>
          /\ status' = "returned"
          /\ retErr' = ErrGuard
          /\ UNCHANGED <<cfg, mainURL, mainURLContent, robotsTxtSitemapURLs,
                         sitemapLocations, urls, errs, fetches>>]_vars

C5_Witness ==
    /\ status = "returned"
    /\ retErr = ErrGuard
    /\ Len(errs) > 0

\* C6: when no content is supplied and the fetch of the entry fails, Parse
\* returns that error, the error collection holds exactly that error, admitted
\* URLs and discovered locations are empty and nothing else was fetched.
C6_EntryFailureLeavesOneError ==
    (status = "returned" /\ call.content = <<>> /\ retErr \notin {Nil, ErrGuard}) =>
        /\ errs = <<retErr>>
        /\ urls = <<>>
        /\ sitemapLocations = <<>>
        /\ fetches = SetToBag({call.url})

\* C7: Parse always returns the instance; it returns an error exactly when the
\* guard fires or the entry content cannot be obtained, and nil when it returns
\* after a traversal, whatever errors the traversal recorded.
C7_ErrorOnlyFromGuardOrEntry ==
    [][/\ (runs' = runs + 1) =>
            IF Len(errs) > 0
               \/ (call'.content = <<>> /\ fetch(call'.url).err # Nil)
            THEN status' = "returned" /\ retObj' = "s" /\ retErr' # Nil
            ELSE status' = "running"
       /\ (status = "running" /\ status' = "returned") =>
            retObj' = "s" /\ retErr' = Nil]_vars

C7_Witness ==
    /\ status = "returned"
    /\ retObj = "s"
    /\ retErr = Nil
    /\ Len(errs) > 0

\* C8: the run of the robots.txt of SiteA (one index, three url sets of two
\* URLs) ends with 6 admitted URLs, 4 discovered locations and no error.
C8_ScenarioA ==
    status = "returned" =>
        /\ Len(urls) = 6
        /\ Len(sitemapLocations) = 4
        /\ errs = <<>>

\* C9: the processing of a document classified as an index issues, for the
\* discovered locations, the index's own locator followed by the children the
\* follow filter admits and nothing else, and each of these appends extends
\* the collection as it stands by that one element.
C9_IndexAppendsOwnAndAdmitted ==
    [][\A p \in DOMAIN units' :
          LET children == parseSitemapIndex(DocOf(p)').Sitemap
          IN /\ (Classifies(p) /\ children # <<>>) =>
                    Project(units'[p].todo, "locs") =
                        <<units'[p].loc>> \o Filter(cfg'.followRegexes, children)
             /\ Stores(p, "locs") =>
                    sitemapLocations' =
                        Append(sitemapLocations, Head(units[p].todo).v)]_vars

\* C10: the processing of a document classified as a url set issues, for the
\* admitted URLs, the entries the rules filter admits, in document order, and
\* no other append but errors, and each of these appends extends the
\* collection as it stands by that one element.
C10_URLSetAppendsAdmitted ==
    [][\A p \in DOMAIN units' :
          LET children == parseSitemapIndex(DocOf(p)').Sitemap
              entries == parseURLSet(DocOf(p)').URL
          IN /\ (Classifies(p) /\ children = <<>> /\ entries # <<>>) =>
                    /\ Project(units'[p].todo, "urls") =
                           FilterURLs(cfg'.rulesRegexes, entries)
                    /\ Project(units'[p].todo, "locs") = <<>>
             /\ Stores(p, "urls") =>
                    urls' = Append(urls, Head(units[p].todo).v)]_vars

C12_SampleOfDistinctPositions ==
    [][getCalls' = getCalls + 1 =>
          /\ Len(sample'.randURLs) = Min(sample'.n, Len(urls))
          /\ SeqToBag(sample'.randURLs) \sqsubseteq SeqToBag(urls)
          /\ sample'.n >= Len(urls) =>
                 SeqToBag(sample'.randURLs) = SeqToBag(urls)]_vars

C12_Witness ==
    /\ getCalls > 0
    /\ Len(urls) = 2
    /\ \/ sample.n = 1 /\ Len(sample.randURLs) = 1
       \/ sample.n = 3 /\ Len(sample.randURLs) = 2

\* C13: a call of GetRandomURLs leaves what GetURLs returns as it was.
C13_SampleKeepsStored ==
    [][getCalls' = getCalls + 1 => GetURLs("s")' = GetURLs("s")]_vars

\* C14: the processing of a document whose content is empty records exactly
\* one empty-content error.
C14_OneEmptyContentError ==
    [][\A p \in DOMAIN units' :
          (/\ Classifies(p)
           /\ DocOf(p)' = EmptyDoc
           /\ p # <<>> => fetch(units'[p].loc).err = Nil) =>
              Cardinality(EmptyContentErrors(units'[p].todo)) = 1]_vars

\* C15: the children an index hands on are those the follow patterns admit,
\* and the URLs a url set appends are those the rules patterns admit, where a
\* set of patterns admits a candidate when it is empty or one of them matches.
C15_AdmittedIffEmptyOrMatch ==
    [][\A p \in DOMAIN units' :
          LET d == DocOf(p)'
              followed(c) == Admits(cfg'.followRegexes, c)
              ruled(u) == Admits(cfg'.rulesRegexes, u.Loc)
          IN Classifies(p) =>
                 /\ Classified(d) = "sitemapindex" =>
                        units'[p].ret =
                            SelectSeq(parseSitemapIndex(d).Sitemap, followed)
                 /\ Classified(d) = "urlset" =>
                        Project(units'[p].todo, "urls") =
                            SelectSeq(parseURLSet(d).URL, ruled)]_vars

C15_Witness ==
    /\ status = "returned"
    /\ retErr = Nil
    /\ Len(cfg.followRegexes) > 0
    /\ Len(cfg.rulesRegexes) > 0
    /\ sitemapLocations = <<LIndex, LA1>>
    /\ urls = <<URL(P1)>>

\* C16: an index issues the append of its own locator whatever the follow
\* patterns say; the locations a document appends do not depend on the rules
\* patterns and the URLs it appends do not depend on the follow patterns; the
\* entry is processed and every locator of robotsTxtSitemapURLs is started
\* whatever the patterns say.
C16_FiltersApplyWhereTheyBelong ==
    [][/\ \A p \in DOMAIN units' :
              LET d == DocOf(p)'
                  loc == units'[p].loc
                  todo == units'[p].todo
                  noFollow == [cfg' EXCEPT !.followRegexes = <<>>]
                  noRules == [cfg' EXCEPT !.rulesRegexes = <<>>]
              IN (Classifies(p) /\ (p # <<>> => fetch(loc).err = Nil)) =>
                     /\ Classified(d) = "sitemapindex" => Head(todo) = Op("locs", loc)
                     /\ Project(todo, "locs") = Project(parse(noRules, loc, d).ops, "locs")
                     /\ Project(todo, "urls") = Project(parse(noFollow, loc, d).ops, "urls")
       /\ (Admitted /\ setContent(call'.url, call'.content).err = Nil) =>
              status' = "running" /\ units'[<<>>].loc = call'.url
       /\ (/\ status = "running"
           /\ isRobots
           /\ units[<<>>].pc = "expand"
           /\ units'[<<>>].pc # "expand") =>
              \A i \in 1..Len(robotsTxtSitemapURLs) :
                  /\ <<i>> \in DOMAIN units'
                  /\ units'[<<i>>].loc = robotsTxtSitemapURLs[i]]_vars

C16_Witness ==
    /\ status = "returned"
    /\ retErr = Nil
    /\ isRobots
    /\ Len(cfg.followRegexes) > 0
    /\ ~matches(cfg.followRegexes, LIndex)
    /\ LIndex \in Elements(sitemapLocations)
    /\ urls # <<>>

\* C17: a Parse of a robots.txt without a Sitemap directive returns nil, has
\* fetched the entry only and leaves urls, sitemapLocations and errs empty.
C17_RedirectorWithoutDirective ==
    (/\ status = "returned"
     /\ retErr # ErrGuard
     /\ HasSuffix(call.url, RobotsSuffix)
     /\ setContent(call.url, call.content).err = Nil
     /\ parseRobotsTXT(setContent(call.url, call.content).content) = <<>>) =>
        /\ retErr = Nil
        /\ fetches \sqsubseteq SetToBag({call.url})
        /\ urls = <<>>
        /\ sitemapLocations = <<>>
        /\ errs = <<>>

\* C18: a Parse call that gets past the guard does not fetch the entry when
\* content is supplied and fetches it once when it is not, and the content
\* supplied or fetched is the content kept and handed to parse.
C18_SuppliedContentBypassesFetch ==
    [][Admitted =>
          LET url == call'.url
              given == call'.content
              kept(content) == IF HasSuffix(url, RobotsSuffix) THEN content
                               ELSE checkAndUnzipContent(content).content
          IN IF given # <<>>
             THEN /\ fetches' = EmptyBag
                  /\ status' = "running"
                  /\ mainURLContent' = kept(given[1])
             ELSE /\ fetches' = SetToBag({url})
                  /\ fetch(url).err = Nil =>
                         /\ status' = "running"
                         /\ mainURLContent' = kept(fetch(url).body)]_vars

C18_Witness ==
    /\ status = "returned"
    /\ retErr = Nil
    /\ call.content # <<>>
    /\ mainURLContent = call.content[1]
    /\ ~BagIn(call.url, fetches)
    /\ urls = MapURL(call.content[1].items)

\* C19: within one run no locator is fetched more than once.
C19_NoLocatorFetchedTwice ==
    \A l \in BagToSet(fetches) : CopiesIn(l, fetches) <= 1

\* C20: a Parse call that gets past the guard starts from empty collections:
\* after the call nothing of an earlier run is in sitemapLocations, urls, errs
\* or robotsTxtSitemapURLs.
C20_RunStartsEmpty ==
    [][(Admitted /\ status' = "running") =>
          /\ sitemapLocations' = <<>>
          /\ urls' = <<>>
          /\ errs' = <<>>
          /\ robotsTxtSitemapURLs' =
                 IF HasSuffix(call'.url, RobotsSuffix)
                 THEN parseRobotsTXT(mainURLContent') ELSE <<>>]_vars

\* C21: on a nil receiver GetErrorsCount, GetErrors, GetURLCount and
\* GetRandomURLs return 0, nil, 0 and an empty slice; on the instance the two
\* counts are the lengths of errs and urls, and GetURLs is empty when urls is.
C21_AccessorsOnNilAndCounts ==
    /\ GetErrorsCount(Nil) = 0
    /\ GetErrors(Nil) = <<>>
    /\ GetURLCount(Nil) = 0
    /\ sample.s = Nil => sample.randURLs = <<>>
    /\ GetErrorsCount("s") = Len(errs)
    /\ GetURLCount("s") = Len(urls)
    /\ Len(urls) = 0 => GetURLs("s") = <<>>

C21_Witness ==
    /\ sample.s = Nil
    /\ sample.n > 0
    /\ Len(urls) > 0
    /\ Len(errs) > 0

\* C22: parse takes content for an index whenever index decoding yields a
\* child, and then admits no URL; it takes it for a url set only when index
\* decoding yields no child and url set decoding yields an entry.
C22_IndexBeforeLeafSet ==
    [][\A p \in DOMAIN units' :
          LET d == DocOf(p)'
              todo == units'[p].todo
              children == parseSitemapIndex(d).Sitemap
              entries == parseURLSet(d).URL
          IN Parses(p) =>
                 /\ children # <<>> =>
                        /\ Project(todo, "locs") # <<>>
                        /\ Head(Project(todo, "locs")) = units'[p].loc
                        /\ Project(todo, "urls") = <<>>
                 /\ (children = <<>> /\ entries # <<>>) =>
                        /\ Project(todo, "locs") = <<>>
                        /\ Project(todo, "urls") =
                               FilterURLs(cfg'.rulesRegexes, entries)
                 /\ (children = <<>> /\ entries = <<>>) =>
                        /\ Project(todo, "locs") = <<>>
                        /\ Project(todo, "urls") = <<>>]_vars

C22_Witness ==
    /\ status = "returned"
    /\ retErr = Nil
    /\ \E p, q \in DOMAIN units :
           /\ units[p].pc = "done" /\ Classified(DocOf(p)) = "sitemapindex"
           /\ units[q].pc = "done" /\ q # <<>>
           /\ Classified(DocOf(q)) = "urlset"
           /\ parseURLSet(DocOf(q)).err # Nil
    /\ URL(P2) \in Elements(urls)

C24_LocationsOrURLsNotBoth ==
    [][\A p \in DOMAIN units' :
          Classifies(p) =>
              \/ Project(units'[p].todo, "locs") = <<>>
              \/ Project(units'[p].todo, "urls") = <<>>]_vars

C24_Witness ==
    /\ status = "returned"
    /\ retErr = Nil
    /\ sitemapLocations # <<>>
    /\ urls # <<>>
    /\ errs # <<>>
    /\ \A p \in DOMAIN units : Len(units[p].todo) = 0

\* C25: what parse returns is the children it appended to sitemapLocations
\* (the appends after the index's own locator), and nothing for any other
\* content; the traversal starts one unit for each locator returned, in order,
\* none when nothing is returned, and each unit fetches its locator once.
C25_ReturnedChildrenAreFetched ==
    /\ [][\A p \in DOMAIN units' :
             Parses(p) =>
                 units'[p].ret =
                     IF Classified(DocOf(p)') = "sitemapindex"
                     THEN Tail(Project(units'[p].todo, "locs"))
                     ELSE <<>>]_vars
    /\ [](\A p \in DOMAIN units :
              units[p].pc \in {"wait", "done"} =>
                  /\ Cardinality(Children(p)) = Len(units[p].ret)
                  /\ \A i \in 1..Len(units[p].ret) :
                         /\ p \o <<i>> \in DOMAIN units
                         /\ units[p \o <<i>>].loc = units[p].ret[i])
    /\ []((\/ status = "running"
           \/ status = "returned" /\ retErr = Nil) =>
             LET started == {p \in DOMAIN units \ {<<>>} :
                                units[p].pc \notin {"lock", "fetch"}}
                 entry == IF call.content = <<>> THEN {call.url} ELSE {}
             IN \A l \in BagToSet(fetches) \cup entry \cup {units[p].loc : p \in started} :
                    CopiesIn(l, fetches) =
                        Cardinality({p \in started : units[p].loc = l})
                        + Cardinality(entry \cap {l}))

C25_Witness ==
    /\ status = "returned"
    /\ retErr = Nil
    /\ \E p \in DOMAIN units :
           /\ Len(units[p].ret) = 2
           /\ Classified(DocOf(p)) = "sitemapindex"
           /\ \A q \in Children(p) :
                  units[q].pc = "done" /\ CopiesIn(units[q].loc, fetches) > 0
    /\ \E p \in DOMAIN units \ {<<>>} : units[p].pc = "done" /\ units[p].ret = <<>>

\* C26: a Parse of a robots.txt adds to robotsTxtSitemapURLs, for each line
\* that starts with "Sitemap: " and in line order, the whole text that follows
\* the prefix on the line, and nothing for any other line.
C26_WholeTextAfterPrefix ==
    [][(Admitted /\ status' = "running" /\ HasSuffix(call'.url, RobotsSuffix)) =>
          robotsTxtSitemapURLs' =
              robotsTxtSitemapURLs \o AfterPrefix(Lines(mainURLContent'))]_vars

\* C27: the entry is handled as a robots.txt exactly when its locator ends
\* with "/robots.txt", its content fetched or supplied: the content is then
\* kept as it is, nothing is appended for it and its directives are what the
\* traversal starts from; any other entry is unzipped and handed to parse.
C27_RedirectorBySuffixOnly ==
    [][(Admitted /\ setContent(call'.url, call'.content).err = Nil) =>
          LET url == call'.url
              content == setContent(url, call'.content).content
              z == checkAndUnzipContent(content)
              p == parse(cfg', url, z.content)
              body == units'[<<>>]
          IN IF Len(url) > 0 /\ url[Len(url)] = RobotsSuffix
             THEN /\ mainURLContent' = content
                  /\ body.todo = <<>>
                  /\ body.ret = robotsTxtSitemapURLs'
                  /\ UNCHANGED <<sitemapLocations, urls, errs>>
             ELSE /\ mainURLContent' = z.content
                  /\ body.todo = z.ops \o p.ops
                  /\ body.ret = p.ret]_vars

C27_Witness ==
    /\ status = "returned"
    /\ retErr = Nil
    /\ call = [url |-> LRobots, content |-> <<RobotsTwice>>]
    /\ mainURLContent = RobotsTwice
    /\ errs # <<>>
    /\ Elements(errs) \subseteq {ErrStatus, ErrTransport}

\* C28: with multiThread = false at most one location is being classified at
\* any moment, and of two units started for the same list of locations one
\* has begun only when the whole subtree of the other is finished or not
\* begun; the units of a loop begin in the order of the list.
C28_SequentialOneAtATime ==
    ~cfg.multiThread =>
        /\ Cardinality(Busy) <= 1
        /\ \A p, q \in DOMAIN units \ {<<>>} :
               (p # q /\ Parent(p) = Parent(q) /\ Begun(p) /\ Begun(q)) =>
                   Finishes(p) \/ Finishes(q)
        /\ \A p, q \in DOMAIN units \ {<<>>} :
               (/\ Parent(p) = Parent(q)
                /\ ~units[q].locked
                /\ p[Len(p)] < q[Len(q)]
                /\ Begun(q)) => Finishes(p)

C28_Witness ==
    /\ status = "returned"
    /\ retErr = Nil
    /\ ~cfg.multiThread
    /\ isRobots
    /\ Len(units[<<>>].ret) = 2
    /\ \E p \in DOMAIN units : Len(p) = 2 /\ p[2] = 3 /\ units[p].pc = "done"

C30_AdmittedChildStaysRecorded ==
    (status = "running" \/ (status = "returned" /\ retErr = Nil)) =>
        /\ \A p \in DOMAIN units \ {<<>>} :
               ~units[p].locked => units[p].loc \in Elements(sitemapLocations)
        /\ status = "returned" =>
               Cardinality({i \in 1..Len(errs) : errs[i] \in {ErrStatus, ErrTransport}})
                   = Cardinality({p \in DOMAIN units \ {<<>>} :
                                      fetch(units[p].loc).err # Nil})

\* C31: while Parse runs, and up to its return, each of sitemapLocations, urls
\* and errs only grows: every step leaves what the collection held in place
\* and at most adds to its end.
C31_CollectionsOnlyGrow ==
    [][status = "running" =>
          \A f \in Fields :
              /\ Len(Field(f)') >= Len(Field(f))
              /\ SubSeq(Field(f)', 1, Len(Field(f))) = Field(f)]_vars

C33_SetterRecordsEachBadPattern ==
    [][/\ setCalls' = setCalls + 1 =>
              \E rs \in PatternLists :
                  LET valid == SelectSeq(rs, LAMBDA x : ~CompileFails(x))
                      bad == SelectSeq(rs, CompileFails)
                  IN /\ errs' = errs \o [i \in 1..Len(bad) |-> ErrRegexp]
                     /\ \/ /\ cfg'.follow = rs
                           /\ cfg'.followRegexes = cfg.followRegexes \o valid
                           /\ cfg'.rulesRegexes = cfg.rulesRegexes
                           /\ cfg'.rules = cfg.rules
                        \/ /\ cfg'.rules = rs
                           /\ cfg'.rulesRegexes = cfg.rulesRegexes \o valid
                           /\ cfg'.followRegexes = cfg.followRegexes
                           /\ cfg'.follow = cfg.follow
                     /\ \A i \in 1..Len(cfg'.followRegexes \o cfg'.rulesRegexes) :
                            ~CompileFails((cfg'.followRegexes \o cfg'.rulesRegexes)[i])
       /\ (runs' = runs + 1 /\ ErrRegexp \in Elements(errs)) =>
              /\ retErr' = ErrGuard
              /\ status' = "returned"
              /\ fetches' = fetches
              /\ units' = units
              /\ errs' = errs]_vars

C33_Witness ==
    /\ status = "returned"
    /\ retErr = ErrGuard
    /\ runs = 1
    /\ errs = <<ErrRegexp>>
    /\ cfg.follow = <<"(", "alpha">>
    /\ cfg.followRegexes = <<"alpha">>

\* C34: the set of compiled follow patterns is exactly the patterns of the
\* list last given to SetFollow that compile, and the compiled rules filter of
\* those of the list last given to SetRules, however many calls were made.
C34_FilterIsLastList ==
    /\ Elements(cfg.followRegexes) = {x \in Elements(cfg.follow) : ~CompileFails(x)}
    /\ Elements(cfg.rulesRegexes) = {x \in Elements(cfg.rules) : ~CompileFails(x)}

\* C35: while Parse runs, some unit can take a step or Parse can return (no
\* state is reached in which the lock and the join barriers block everything),
\* and with every goroutine scheduled Parse eventually returns.
C35_ParseReturns ==
    /\ [](status = "running" => ENABLED (Traverse \/ Return))
    /\ (status = "running") ~> (status = "returned")

C35_Witness ==
    /\ status = "returned"
    /\ retErr = Nil
    /\ cfg.multiThread
    /\ isRobots
    /\ mu = <<>>
    /\ Cardinality({p \in DOMAIN units : units[p].locked /\ units[p].pc = "done"}) = 2
    /\ \E p \in DOMAIN units : Len(p) = 2 /\ units[p].pc = "done"

C37_LocationsCountOwnAndChildren ==
    (/\ status = "returned"
     /\ retErr = Nil
     /\ SeqToBag(Issued("locs")) \sqsubseteq SeqToBag(sitemapLocations)) =>
        /\ \A p \in IndexUnits :
               (Len(p) >= 1 /\ Parent(p) \in IndexUnits) =>
                   CopiesIn(units[p].loc, SeqToBag(sitemapLocations)) >= 2
        /\ Len(sitemapLocations) = OwnAndAdmitted(IndexUnits)

\* C38: when Parse has returned, a url set whose locator k redirector lines
\* or index children name has been fetched k times, and each URL of it that
\* the rules filter admits is in urls k times.
C38_ReferencedTwiceCountedTwice ==
    (status = "returned" /\ retErr = Nil) =>
        \A p \in DOMAIN units \ {<<>>} :
            (fetch(units[p].loc).err = Nil /\ Classified(DocOf(p)) = "urlset") =>
                LET l == units[p].loc
                    k == Cardinality({q \in DOMAIN units \ {<<>>} : units[q].loc = l})
                    entry == IF call.content = <<>> /\ call.url = l THEN 1 ELSE 0
                IN /\ CopiesIn(l, fetches) = k + entry
                   /\ \A u \in Elements(Project(UnitOps(p), "urls")) :
                          CopiesIn(u, SeqToBag(urls)) = k

\* C39: every accessor returns a value for every receiver and argument:
\* GetURLs of a nil receiver is the empty sequence, as GetErrors is, the counts
\* of a nil receiver are 0, and a GetRandomURLs called with a negative n or on
\* a nil receiver has returned the empty sequence.
C39_NoAccessorFails ==
    /\ GetURLs(Nil) = <<>>
    /\ GetErrors(Nil) = <<>>
    /\ GetErrorsCount(Nil) = 0
    /\ GetURLCount(Nil) = 0
    /\ (sample.s = Nil \/ sample.n < 0) => sample.randURLs = <<>>

====
